---- MODULE Spec2Model ----
(***************************************************************************)
(* A model of the two programs of the repository:                          *)
(*   colmap_reader.py  sparse point extraction, point visibility and the   *)
(*                     COLMAP text export;                                 *)
(*   test_co3d.py      pairwise relative pose errors, the AUC statistic    *)
(*                     and the CO3D evaluation loop.                       *)
(* Floating-point values are modelled as exact rationals plus NaN: a value *)
(* is NaN (the empty tuple) or <<num, den>> in lowest terms with den > 0.  *)
(* Comparisons with NaN are false, arithmetic on NaN gives NaN, as in      *)
(* IEEE 754.  Rounding is not modelled.                                    *)
(***************************************************************************)
EXTENDS Integers, Sequences, FiniteSets, TLC

VARIABLES
    pc,            \* position of the running program
    points3d,      \* compute_point_visibility / write_points3d_txt: the points
    cameras,       \* per image: extrinsic, intrinsic, shape
    image_points,  \* per image: list of (x, y, point_idx)
    point_tracks,  \* per point: list of (image_id, point2d_idx)
    point_idx,     \* loop counter of line 78 (0-based)
    img_idx,       \* loop counter of line 79 (0-based)
    cameras_txt,   \* header count and data lines of cameras.txt
    images_txt,    \* header count and data lines of images.txt
    points3d_txt,  \* header count and rows of points3D.txt
    point_maps,    \* extract_sparse_point_cloud: per view an h x w map of points
    sample_step,   \* its stride
    ex_img,        \* loop counters of lines 41, 43, 44 (0-based)
    ex_y,
    ex_x,
    points,        \* the lists it builds
    point_colors,
    point_origins,
    tvec_gt,       \* translation_angle: the batch of ground-truth translations
    tvec_pred,     \* and of predicted translations
    ambiguity,     \* its flag
    err_t,         \* what compare_translation_by_angle returned (radians)
    rel_tangle_deg,\* what translation_angle returned (degrees)
    r_error,       \* calculate_auc, calculate_auc_np: rotation errors (degrees)
    t_error,       \* translation errors (degrees)
    auc_np,        \* what calculate_auc_np returned, <<>> before the call
    auc_torch,     \* what calculate_auc(return_list=True) returned
    num_frames,    \* process_sequence: the number of sampled frames
    gt_extrinsic,  \* the 3x4 ground-truth extrinsics of the frames
    pred_extrinsic,\* the 3x4 predicted extrinsics of the frames
    pred_se3,      \* the 4x4 predicted poses
    gt_se3,        \* the 4x4 ground-truth poses, aligned to the first camera
    relative_pose_gt,   \* se3_to_relative_pose_error: per pair of frames
    relative_pose_pred,
    seq_rError,    \* the rotation errors it returned (degrees), <<>> before
    seq_tError,    \* the translation errors it returned (degrees)
    Auc_30,        \* main: the AUC of the errors, <<>> before
    args,          \* main: the command-line arguments
    category,      \* position in the list of categories (1-based)
    num_seqs,      \* len(annotation) of the category
    seq_idx,       \* position in annotation.items() (1-based)
    seq_data,      \* the frames of the sequence the loop last reached
    seq_errors,    \* what process_sequence last returned
    calls,         \* the calls it made of the loader, the refiner and the model
    pred,          \* the predicted pose it used, <<>> when none
    rError,        \* the category's rotation errors so far
    tError,        \* the category's translation errors so far
    per_category_results, \* per evaluated category, in order: its AUC
    mean_AUC       \* the mean AUC of the summary, <<>> before

visVars == <<points3d, cameras, image_points, point_tracks, point_idx, img_idx,
             cameras_txt, images_txt, points3d_txt>>

extVars == <<point_maps, sample_step, ex_img, ex_y, ex_x, points, point_colors,
             point_origins>>

trVars == <<tvec_gt, tvec_pred, ambiguity, err_t, rel_tangle_deg>>

aucVars == <<r_error, t_error, auc_np, auc_torch>>

poseVars == <<num_frames, gt_extrinsic, pred_extrinsic, pred_se3, gt_se3,
              relative_pose_gt, relative_pose_pred, seq_rError, seq_tError, Auc_30>>

evalVars == <<args, category, num_seqs, seq_idx, seq_data, seq_errors, calls, pred,
              rError, tError, per_category_results, mean_AUC>>

vars == <<pc, visVars, extVars, trVars, aucVars, poseVars, evalVars>>

\* What the visibility and export steps leave alone, and its value while they run
notVis == <<extVars, trVars, aucVars, poseVars, evalVars>>

IdleExt ==
    /\ point_maps = <<>>
    /\ sample_step = 1
    /\ ex_img = 0
    /\ ex_y = 0
    /\ ex_x = 0
    /\ points = <<>>
    /\ point_colors = <<>>
    /\ point_origins = <<>>

\* What the extraction steps leave alone, and its value while they run
notExt == <<visVars, trVars, aucVars, poseVars, evalVars>>

IdleTr ==
    /\ tvec_gt = <<>>
    /\ tvec_pred = <<>>
    /\ ambiguity = TRUE
    /\ err_t = <<>>
    /\ rel_tangle_deg = <<>>

\* What the pose error functions leave alone
notTr == <<visVars, extVars, aucVars, poseVars, evalVars>>

IdleAuc ==
    /\ r_error = <<>>
    /\ t_error = <<>>
    /\ auc_np = <<>>
    /\ auc_torch = <<>>

\* What the AUC functions leave alone
notAuc == <<visVars, extVars, trVars, poseVars, evalVars>>

IdlePose ==
    /\ num_frames = 0
    /\ gt_extrinsic = <<>>
    /\ pred_extrinsic = <<>>
    /\ pred_se3 = <<>>
    /\ gt_se3 = <<>>
    /\ relative_pose_gt = <<>>
    /\ relative_pose_pred = <<>>
    /\ seq_rError = <<>>
    /\ seq_tError = <<>>
    /\ Auc_30 = <<>>

\* What the pose error computation leaves alone
notPose == <<visVars, extVars, trVars, aucVars, evalVars>>

IdleEval ==
    /\ args = <<>>
    /\ category = 0
    /\ num_seqs = 0
    /\ seq_idx = 0
    /\ seq_data = <<>>
    /\ seq_errors = <<>>
    /\ calls = <<>>
    /\ pred = <<>>
    /\ rError = <<>>
    /\ tError = <<>>
    /\ per_category_results = <<>>
    /\ mean_AUC = <<>>

\* What the evaluation loop leaves alone
notEval == <<visVars, extVars, trVars, aucVars, poseVars>>

(***************************************************************************)
(* Floating point values                                                   *)
(***************************************************************************)
NaN == <<>>

F(n) == <<n, 1>>

IsNaN(a) == a = NaN

Abs(n) == IF n < 0 THEN -n ELSE n

RECURSIVE Gcd(_, _)
Gcd(a, b) == IF b = 0 THEN a ELSE Gcd(b, a % b)

\* n/d in lowest terms (d > 0)
Frac(n, d) == LET g == Gcd(Abs(n), d) IN <<n \div g, d \div g>>

FAdd(a, b) == IF IsNaN(a) \/ IsNaN(b) THEN NaN
              ELSE Frac(a[1] * b[2] + b[1] * a[2], a[2] * b[2])

FMul(a, b) == IF IsNaN(a) \/ IsNaN(b) THEN NaN
              ELSE Frac(a[1] * b[1], a[2] * b[2])

\* a / b; 0/0 is NaN.  x/0 with x # 0 (an infinity) is not representable and is
\* never evaluated: every division of the programs is by a value checked > 0,
\* by a NaN, or by a norm plus eps.
FDiv(a, b) == IF IsNaN(a) \/ IsNaN(b) \/ b[1] = 0 THEN NaN
              ELSE IF b[1] > 0 THEN Frac(a[1] * b[2], a[2] * b[1])
              ELSE Frac(-(a[1] * b[2]), a[2] * (-b[1]))

\* The integer part (floor) of a finite value
FloorOf(a) == a[1] \div a[2]

\* a < b, a <= b: by integer parts, then by fractional parts
FLt(a, b) ==
    /\ ~IsNaN(a) /\ ~IsNaN(b)
    /\ \/ FloorOf(a) < FloorOf(b)
       \/ /\ FloorOf(a) = FloorOf(b)
          /\ (a[1] % a[2]) * b[2] < (b[1] % b[2]) * a[2]

FLe(a, b) ==
    /\ ~IsNaN(a) /\ ~IsNaN(b)
    /\ \/ FloorOf(a) < FloorOf(b)
       \/ /\ FloorOf(a) = FloorOf(b)
          /\ (a[1] % a[2]) * b[2] <= (b[1] % b[2]) * a[2]

FGt(a, b) == FLt(b, a)

\* np.dot of a 3-vector row with a 3-vector
Dot3(r, v) == FAdd(FAdd(FMul(r[1], v[1]), FMul(r[2], v[2])), FMul(r[3], v[3]))

(***************************************************************************)
(* colmap_reader.py: compute_point_visibility                              *)
(***************************************************************************)
MaxPoints == 2
MaxCams == 2

P3(x, y, z) == <<F(x), F(y), F(z)>>

\* The points the visibility test is run on: in front and inside, on the
\* borders x = 0 / y = 0 / x = width, at depth 0, behind, a fractional pixel, NaN.
PointSet == { P3(0, 0, 1), P3(1, 1, 1), P3(2, 0, 1), P3(0, 2, 1), P3(1, 0, 0),
              P3(0, 1, -1), P3(3, 1, 2), P3(-1, 0, 1), <<NaN, F(0), F(1)>> }

Row(a, b, c) == <<F(a), F(b), F(c)>>

\* A camera: extrinsic rotation rows R, translation t, intrinsic rows K and
\* shape = (height, width).
Cam(R, t, K, h, w) == [R |-> R, t |-> t, K |-> K, shape |-> <<h, w>>]

IdRot == <<Row(1, 0, 0), Row(0, 1, 0), Row(0, 0, 1)>>
FlipRot == <<Row(-1, 0, 0), Row(0, 1, 0), Row(0, 0, -1)>>
UnitK == <<Row(1, 0, 0), Row(0, 1, 0), Row(0, 0, 1)>>
ShiftK == <<Row(2, 0, 1), Row(0, 1, 0), Row(0, 0, 1)>>

CamSet == { Cam(IdRot, P3(0, 0, 0), UnitK, 2, 2),
            Cam(FlipRot, P3(0, 0, 0), UnitK, 2, 2),
            Cam(IdRot, P3(1, 0, 1), ShiftK, 1, 3) }

SeqsUpTo(S, n) == UNION { [1..k -> S] : k \in 0..n }

\* line 84: point_cam = np.dot(extrinsic[:3, :3], point3d) + extrinsic[:3, 3]
PointCam(cam, p) == [r \in 1..3 |-> FAdd(Dot3(cam.R[r], p), cam.t[r])]

\* line 91: point_homo = np.dot(intrinsic, point_cam / point_cam[2])
PointHomo(cam, pcam) ==
    LET q == [r \in 1..3 |-> FDiv(pcam[r], pcam[3])]
    IN  [r \in 1..3 |-> Dot3(cam.K[r], q)]

\* line 87: if point_cam[2] <= 0: continue
Behind(pcam) == FLe(pcam[3], F(0))

\* line 95: if 0 <= x < width and 0 <= y < height
InBoundsWrong(x, y, shape) ==
    /\ FLe(F(0), x) /\ FLe(x, F(shape[2]))
    /\ FLe(F(0), y) /\ FLe(y, F(shape[1]))

InBounds(x, y, shape) ==
    /\ FLe(F(0), x) /\ FLt(x, F(shape[2]))
    /\ FLe(F(0), y) /\ FLt(y, F(shape[1]))

\* lines 96-97: the track entry of the observation just appended
TrackEntryWrong(i, obs) == <<i + 1, Len(obs)>>

TrackEntry(i, obs) == <<i + 1, Len(obs) - 1>>

\* A file not written yet
NoFile == [header |-> -1, rows |-> <<>>]

InitVis ==
    /\ pc = "visibility"
    /\ points3d \in SeqsUpTo(PointSet, MaxPoints)
    /\ cameras \in SeqsUpTo(CamSet, MaxCams)
    /\ image_points = [i \in 1..Len(cameras) |-> <<>>]
    /\ point_tracks = [p \in 1..Len(points3d) |-> <<>>]
    /\ point_idx = 0
    /\ img_idx = 0
    /\ cameras_txt = NoFile
    /\ images_txt = NoFile
    /\ points3d_txt = NoFile
    /\ IdleExt
    /\ IdleTr
    /\ IdleAuc
    /\ IdlePose
    /\ IdleEval

\* One iteration of the inner loop (lines 79-97) for (point_idx, img_idx).
VisibilityStep ==
    /\ pc = "visibility"
    /\ point_idx < Len(points3d)
    /\ img_idx < Len(cameras)
    /\ LET cam == cameras[img_idx + 1]
           pcam == PointCam(cam, points3d[point_idx + 1])
           h == PointHomo(cam, pcam)
           obs == Append(image_points[img_idx + 1], <<h[1], h[2], point_idx>>)
       IN  IF ~Behind(pcam) /\ InBounds(h[1], h[2], cam.shape)
           THEN /\ image_points' = [image_points EXCEPT ![img_idx + 1] = obs]
                /\ point_tracks' = [point_tracks EXCEPT ![point_idx + 1] =
                                       Append(@, TrackEntry(img_idx, obs))]
           ELSE UNCHANGED <<image_points, point_tracks>>
    /\ IF img_idx + 1 < Len(cameras)
       THEN /\ img_idx' = img_idx + 1
            /\ UNCHANGED point_idx
       ELSE /\ img_idx' = 0
            /\ point_idx' = point_idx + 1
    /\ UNCHANGED <<pc, points3d, cameras, cameras_txt, images_txt, points3d_txt>>
    /\ UNCHANGED notVis

\* The loops are over (line 99: return image_points, point_tracks); with no
\* camera the inner loop never runs.
VisibilityReturn ==
    /\ pc = "visibility"
    /\ point_idx >= Len(points3d) \/ Len(cameras) = 0
    /\ pc' = "write_cameras"
    /\ UNCHANGED visVars
    /\ UNCHANGED notVis

(***************************************************************************)
(* colmap_reader.py: the COLMAP text export.  A file is its declared count *)
(* (the "# Number of ..." header line) and its data rows.  Numbers are     *)
(* written with a fixed number of decimals: Fmt(x, d) is x rounded to d    *)
(* decimals: its sign, integer part and decimals in groups of three digits;  *)
(* <<>> for "nan".                                                        *)
(***************************************************************************)
\* The first n groups of three decimals of rem/den (0 <= rem < den), and what
\* is left: long division in base 1000
RECURSIVE Groups(_, _, _)
Groups(rem, den, n) ==
    IF n = 0 THEN [g |-> <<>>, rem |-> rem]
    ELSE LET rest == Groups((rem * 1000) % den, den, n - 1)
         IN  [g |-> <<(rem * 1000) \div den>> \o rest.g, rem |-> rest.rem]

\* One unit added in the last place of the groups g
RECURSIVE Incr(_)
Incr(g) ==
    IF g = <<>> THEN [g |-> <<>>, carry |-> 1]
    ELSE LET n == Len(g)
         IN  IF g[n] < 999
             THEN [g |-> [g EXCEPT ![n] = @ + 1], carry |-> 0]
             ELSE LET up == Incr(SubSeq(g, 1, n - 1))
                  IN  [g |-> Append(up.g, 0), carry |-> up.carry]

\* f"{x:.6f}" (d = 6), f"{x:.9f}" (d = 9): <<sign, integer part, decimals>>
Fmt(x, d) ==
    IF IsNaN(x) THEN <<>>
    ELSE LET n == Abs(x[1])
             G == Groups(n % x[2], x[2], d \div 3)
             R == IF 2 * G.rem >= x[2] THEN Incr(G.g) ELSE [g |-> G.g, carry |-> 0]
         IN  <<IF x[1] < 0 THEN -1 ELSE 1, (n \div x[2]) + R.carry, R.g>>

\* write_cameras_txt, lines 14-33: one PINHOLE row per camera, ids from 1
WriteCamerasTxt ==
    /\ pc = "write_cameras"
    /\ cameras_txt' =
          [header |-> Len(cameras),
           rows |-> [i \in 1..Len(cameras) |->
                       [camera_id |-> i, model |-> "PINHOLE",
                        width |-> cameras[i].shape[2],
                        height |-> cameras[i].shape[1],
                        fx |-> cameras[i].K[1][1], fy |-> cameras[i].K[2][2],
                        cx |-> cameras[i].K[1][3], cy |-> cameras[i].K[2][3]]]]
    /\ pc' = "write_images"
    /\ UNCHANGED <<points3d, cameras, image_points, point_tracks, point_idx,
                   img_idx, images_txt, points3d_txt>>
    /\ UNCHANGED notVis

\* line 128: the POINTS2D[] line of an image
Points2dLine(pts) ==
    [k \in 1..Len(pts) |->
        [x |-> Fmt(pts[k][1], 6), y |-> Fmt(pts[k][2], 6),
         point3d_id |-> pts[k][3]]]

\* write_images_txt, lines 101-129 (the pose columns QW..TZ and NAME of the
\* first line of an image are not part of the model)
WriteImagesTxt ==
    /\ pc = "write_images"
    /\ images_txt' =
          [header |-> Len(cameras),
           rows |-> [i \in 1..Len(image_points) |->
                       [image_id |-> i, camera_id |-> i,
                        points2d |-> Points2dLine(image_points[i])]]]
    /\ pc' = "write_points3d"
    /\ UNCHANGED <<points3d, cameras, image_points, point_tracks, point_idx,
                   img_idx, cameras_txt, points3d_txt>>
    /\ UNCHANGED notVis

\* line 136: f"# Number of points: {len(points3d)}"
HeaderCountWritten(pts, rows) == Len(rows)

HeaderCount(pts, rows) == Len(pts)

\* line 152: the POINT3D_ID column of a row
RowIdRenumbered(idx, valid_points) == valid_points

RowId(idx, valid_points) == idx

\* line 141: if not track: continue
SkipRow(track) == track = <<>>

\* lines 138-153: the rows written for the points idx.. (0-based), valid_points
\* rows having been written before
RECURSIVE Points3dRows(_, _, _, _)
Points3dRows(pts, tracks, idx, valid_points) ==
    IF idx >= Len(pts) \/ idx >= Len(tracks) THEN <<>>
    ELSE IF SkipRow(tracks[idx + 1])
         THEN Points3dRows(pts, tracks, idx + 1, valid_points)
         ELSE <<[point3d_id |-> RowId(idx, valid_points),
                 xyz |-> [c \in 1..3 |-> Fmt(pts[idx + 1][c], 9)],
                 error |-> Fmt(F(1), 9),
                 track |-> tracks[idx + 1]]>>
              \o Points3dRows(pts, tracks, idx + 1, valid_points + 1)

\* write_points3d_txt, lines 131-155 (the R G B columns are not part of the
\* model)
WritePoints3dTxt ==
    /\ pc = "write_points3d"
    /\ LET rows == Points3dRows(points3d, point_tracks, 0, 0)
       IN  points3d_txt' = [header |-> HeaderCount(points3d, rows), rows |-> rows]
    /\ pc' = "done"
    /\ UNCHANGED <<points3d, cameras, image_points, point_tracks, point_idx,
                   img_idx, cameras_txt, images_txt>>
    /\ UNCHANGED notVis

NextVis ==
    \/ VisibilityStep
    \/ VisibilityReturn
    \/ WriteCamerasTxt
    \/ WriteImagesTxt
    \/ WritePoints3dTxt

SpecVis == InitVis /\ [][NextVis]_vars
(***************************************************************************)
(* colmap_reader.py: extract_sparse_point_cloud                            *)
(***************************************************************************)
MaxViews == 2
MaxH == 2
MaxW == 3
MaxStep == 2

\* The values of the pixels of the point maps: norms 5, 0, 0.001, 1001, 1000,
\* 0.0005, NaN and 800*sqrt(2)
PixelSeq == << P3(0, 3, 4), P3(0, 0, 0), <<<<1, 1000>>, F(0), F(0)>>,
               P3(1001, 0, 0), P3(600, 800, 0), <<<<1, 2000>>, F(0), F(0)>>,
               <<NaN, F(0), F(1)>>, P3(800, 800, 0) >>

\* An h x w point map (rows 0..h-1, columns 0..w-1) whose pixels run through
\* PixelSeq from place o
MakeMap(h, w, o) ==
    [y \in 0..h - 1 |-> [x \in 0..w - 1 |->
        PixelSeq[((o + y * w + x) % Len(PixelSeq)) + 1]]]

\* line 53: color = img[y, x], as the name of that pixel of that image
Colour(i, y, x) == <<"img", i, y, x>>

\* np.linalg.norm(point3d), squared: the comparisons of line 49 are made on
\* the squares
NormSq(p) == Dot3(p, p)

MinNormSq == <<1, 1000000>>
MaxNormSq == <<1000000, 1>>

\* line 49: np.linalg.norm(point3d) < 0.001 or np.linalg.norm(point3d) > 1000
InvalidPoint(p) == FLt(NormSq(p), MinNormSq) \/ FGt(NormSq(p), MaxNormSq)

\* lines 62-65: filter_points_by_distance returns its arguments
filter_points_by_distance(pts, colors, origins) == <<pts, colors, origins>>

IdleVis ==
    /\ points3d = <<>>
    /\ cameras = <<>>
    /\ image_points = <<>>
    /\ point_tracks = <<>>
    /\ point_idx = 0
    /\ img_idx = 0
    /\ cameras_txt = NoFile
    /\ images_txt = NoFile
    /\ points3d_txt = NoFile

InitExt ==
    /\ pc = "extract"
    /\ \E h \in 1..MaxH : \E w \in 1..MaxW : \E n \in 1..MaxViews :
          \E o \in [1..n -> 0..Len(PixelSeq) - 1] :
             point_maps = [v \in 1..n |-> MakeMap(h, w, o[v])]
    /\ sample_step \in 1..MaxStep
    /\ ex_img = 0
    /\ ex_y = 0
    /\ ex_x = 0
    /\ points = <<>>
    /\ point_colors = <<>>
    /\ point_origins = <<>>
    /\ IdleVis
    /\ IdleTr
    /\ IdleAuc
    /\ IdlePose
    /\ IdleEval

MapH(m) == Cardinality(DOMAIN m)
MapW(m) == Cardinality(DOMAIN m[0])

\* One iteration of the innermost loop (lines 44-58) at (ex_img, ex_y, ex_x),
\* and the step of the three range() loops
ExtractStep ==
    /\ pc = "extract"
    /\ ex_img < Len(point_maps)
    /\ LET point_map == point_maps[ex_img + 1]
           point3d == point_map[ex_y][ex_x]
       IN  /\ IF InvalidPoint(point3d)
              THEN UNCHANGED <<points, point_colors, point_origins>>
              ELSE /\ points' = Append(points, point3d)
                   /\ point_colors' = Append(point_colors, Colour(ex_img, ex_y, ex_x))
                   /\ point_origins' = Append(point_origins, <<ex_img, ex_y, ex_x>>)
           /\ IF ex_x + sample_step < MapW(point_map)
              THEN /\ ex_x' = ex_x + sample_step
                   /\ UNCHANGED <<ex_y, ex_img>>
              ELSE IF ex_y + sample_step < MapH(point_map)
                   THEN /\ ex_x' = 0
                        /\ ex_y' = ex_y + sample_step
                        /\ UNCHANGED ex_img
                   ELSE /\ ex_x' = 0
                        /\ ex_y' = 0
                        /\ ex_img' = ex_img + 1
    /\ UNCHANGED <<pc, point_maps, sample_step>>
    /\ UNCHANGED notExt

\* line 60: return np.array(points), np.array(point_colors), point_origins
ExtractReturn ==
    /\ pc = "extract"
    /\ ex_img >= Len(point_maps)
    /\ pc' = "extracted"
    /\ UNCHANGED extVars
    /\ UNCHANGED notExt

NextExt ==
    \/ ExtractStep
    \/ ExtractReturn

SpecExt == InitExt /\ [][NextExt]_vars

\* The grid positions of the maps whose row and column are multiples of the
\* stride
StridePositions ==
    { o \in (0..Len(point_maps) - 1) \X (0..MaxH) \X (0..MaxW) :
         /\ o[2] < MapH(point_maps[o[1] + 1])
         /\ o[3] < MapW(point_maps[o[1] + 1])
         /\ o[2] % sample_step = 0
         /\ o[3] % sample_step = 0 }

\* The norm of the point lies in [1e-3, 1000]
NormInRange(p) == FLe(MinNormSq, NormSq(p)) /\ FLe(NormSq(p), MaxNormSq)

\* C5: the sparse cloud holds one candidate (position, colour, origin) for
\* exactly the positions at multiples of the stride whose point has a norm in
\* [1e-3, 1000]; a point with norm < 1e-3 or > 1000 is never in it; candidates
\* are not merged, and filter_points_by_distance changes nothing.
C5_ExtractIff ==
    pc = "extracted" =>
       /\ { point_origins[k] : k \in 1..Len(point_origins) } =
             { o \in StridePositions :
                  NormInRange(point_maps[o[1] + 1][o[2]][o[3]]) }
       /\ Len(points) = Len(point_origins)
       /\ Len(point_colors) = Len(point_origins)
       /\ \A k \in 1..Len(point_origins) :
             LET o == point_origins[k]
             IN  /\ points[k] = point_maps[o[1] + 1][o[2]][o[3]]
                 /\ point_colors[k] = Colour(o[1], o[2], o[3])
                 /\ ~InvalidPoint(points[k])
                 /\ \A j \in 1..Len(point_origins) : point_origins[j] = o => j = k
       /\ filter_points_by_distance(points, point_colors, point_origins) =
             <<points, point_colors, point_origins>>

(***************************************************************************)
(* test_co3d.py: angles.  An angle in radians is a multiple of pi           *)
(* (unit "pi": v * pi) or a plain number (unit "rad"); v is a float value.  *)
(* eps = 1e-15 is below the resolution of the model: x + eps is x for       *)
(* x > 0, 1 - eps is 1, so that the angles are right to about 1e-5 degrees. *)
(***************************************************************************)
RadPi(n, d) == [unit |-> "pi", v |-> <<n, d>>]

RadNum(x) == [unit |-> "rad", v |-> x]

FEq(a, b) == FLe(a, b) /\ FLe(b, a)

FNeg(a) == IF IsNaN(a) THEN NaN ELSE <<-a[1], a[2]>>

\* cos^2 of 0, 1, ..., 90 degrees, in millionths (place k + 1 for k degrees);
\* exact at 0, 30, 45, 60 and 90 degrees
Cos2Table ==
    << 1000000, 999695, 998782, 997261, 995134, 992404, 989074, 985148,
       980631, 975528, 969846, 963592, 956773, 949397, 941474, 933013,
       924024, 914519, 904508, 894005, 883022, 871572, 859670, 847329,
       834565, 821394, 807831, 793893, 779596, 764960, 750000, 734736,
       719186, 703368, 687303, 671010, 654508, 637819, 620961, 603956,
       586824, 569587, 552264, 534878, 517450, 500000, 482550, 465122,
       447736, 430413, 413176, 396044, 379039, 362181, 345492, 328990,
       312697, 296632, 280814, 265264, 250000, 235040, 220404, 206107,
       192169, 178606, 165435, 152671, 140330, 128428, 116978, 105995,
       95492, 85481, 75976, 66987, 58526, 50603, 43227, 36408,
       30154, 24472, 19369, 14852, 10926, 7596, 4866, 2739,
       1218, 305, 0 >>

\* torch.acos(torch.sqrt(c)): the angle whose cos^2 is c, in whole degrees
\* rounded down (exact where the table is); NaN for a NaN, for a negative c
\* (sqrt) and for a c above 1 (acos)
AcosSqrt(c) ==
    IF IsNaN(c) \/ FLt(c, F(0)) \/ FGt(c, F(1)) THEN RadNum(NaN)
    ELSE LET k == CHOOSE j \in 0..90 :
                     /\ FLe(c, <<Cos2Table[j + 1], 1000000>>)
                     /\ j < 90 => ~FLe(c, <<Cos2Table[j + 2], 1000000>>)
         IN  [unit |-> "pi", v |-> Frac(k, 180)]

\* torch.arccos(x): acos(sqrt(x^2)) for x >= 0, pi less that for x < 0
Acos(x) ==
    LET a == AcosSqrt(FMul(x, x))
    IN  IF IsNaN(a.v) \/ FLe(F(0), x) THEN a
        ELSE [unit |-> "pi", v |-> FAdd(F(1), FNeg(a.v))]

\* 180 / pi, to three digits
DegPerRad == <<573, 10>>

\* x * 180.0 / np.pi
RadToDeg(a) == IF a.unit = "pi" THEN FMul(a.v, F(180)) ELSE FMul(a.v, DegPerRad)

FAbs(a) == IF IsNaN(a) THEN NaN ELSE <<Abs(a[1]), a[2]>>

\* torch.min(a, b): NaN if either is
FMin(a, b) == IF IsNaN(a) \/ IsNaN(b) THEN NaN ELSE IF FLe(a, b) THEN a ELSE b

FMax(a, b) == IF IsNaN(a) \/ IsNaN(b) THEN NaN ELSE IF FLe(a, b) THEN b ELSE a

\* torch.clamp_min(x, eps), x.clamp(min=eps): NaN stays NaN
ClampMinEps(x) == IF IsNaN(x) THEN NaN ELSE FMax(x, F(0))

(***************************************************************************)
(* test_co3d.py: compare_translation_by_angle, translation_angle           *)
(***************************************************************************)
MaxBatch == 1

default_err == 1000000

\* The translation vectors: zero, unit vectors, diagonals at 45 and 60 degrees
\* of them, and one with a NaN (an infinite component turns into NaN at the
\* normalisation of lines 119 and 122, inf / inf)
TransSet == { P3(0, 0, 0), P3(1, 0, 0), P3(-2, 0, 0), P3(0, 1, 0), P3(1, 1, 0),
              P3(1, 0, 1), <<F(0), NaN, F(1)>> }

\* lines 118-124: torch.sum(t * t_gt) ** 2 of the normalised vectors.  A
\* vector of norm 0 is normalised to 0 / (0 + eps) = 0.
SumSquared(t_gt, t) ==
    LET n == NormSq(t)
        n_gt == NormSq(t_gt)
        d == Dot3(t, t_gt)
    IN  IF IsNaN(n) \/ IsNaN(n_gt) THEN NaN
        ELSE IF n[1] = 0 \/ n_gt[1] = 0 THEN F(0)
        ELSE FDiv(FMul(d, d), FMul(n, n_gt))

\* line 127: err_t[torch.isnan(err_t) | torch.isinf(err_t)] = default_err
ReplaceNanKept(a) == a

ReplaceNan(a) == IF IsNaN(a.v) THEN RadNum(F(default_err)) ELSE a

\* lines 105-128, one row of the batch
compare_translation_by_angle(t_gt, t) ==
    LET loss_t == ClampMinEps(FAdd(F(1), FNeg(SumSquared(t_gt, t))))
    IN  ReplaceNan(AcosSqrt(FAdd(F(1), FNeg(loss_t))))

\* line 97: torch.min(rel_tangle_deg, (180 - rel_tangle_deg).abs())
FoldMax(deg) == FMax(deg, FAbs(FAdd(F(180), FNeg(deg))))

Fold(deg) == FMin(deg, FAbs(FAdd(F(180), FNeg(deg))))

\* lines 80-102, one row of the batch (batch_size is None)
translation_angle(t_gt, t_pred, amb) ==
    LET deg == RadToDeg(compare_translation_by_angle(t_gt, t_pred))
    IN  IF amb THEN Fold(deg) ELSE deg

InitTr ==
    /\ pc = "translation_angle"
    /\ \E n \in 1..MaxBatch :
          /\ tvec_gt \in [1..n -> TransSet]
          /\ tvec_pred \in [1..n -> TransSet]
    /\ ambiguity \in BOOLEAN
    /\ err_t = <<>>
    /\ rel_tangle_deg = <<>>
    /\ IdleVis
    /\ IdleExt
    /\ IdleAuc
    /\ IdlePose
    /\ IdleEval

\* A call of translation_angle on the batch
TranslationAngle ==
    /\ pc = "translation_angle"
    /\ err_t' = [k \in 1..Len(tvec_gt) |->
                    compare_translation_by_angle(tvec_gt[k], tvec_pred[k])]
    /\ rel_tangle_deg' = [k \in 1..Len(tvec_gt) |->
                             translation_angle(tvec_gt[k], tvec_pred[k], ambiguity)]
    /\ pc' = "returned"
    /\ UNCHANGED <<tvec_gt, tvec_pred, ambiguity>>
    /\ UNCHANGED notTr

NextTr == TranslationAngle

SpecTr == InitTr /\ [][NextTr]_vars

HasNaN(v) == \E c \in 1..3 : IsNaN(v[c])

IsZero(v) == \A c \in 1..3 : v[c] = F(0)

C9_RangeAllInputs ==
    pc = "returned" =>
       \A k \in 1..Len(tvec_gt) :
          /\ FLe(F(0), rel_tangle_deg[k])
          /\ FLe(rel_tangle_deg[k], IF ambiguity THEN F(90) ELSE F(180))

\* C9 amended: for every pair of vectors with finite components the result
\* lies in [0, 90] degrees with folding and in [0, 180] degrees without.
C9_RangeFinite ==
    pc = "returned" =>
       \A k \in 1..Len(tvec_gt) :
          (~HasNaN(tvec_gt[k]) /\ ~HasNaN(tvec_pred[k])) =>
             /\ FLe(F(0), rel_tangle_deg[k])
             /\ FLe(rel_tangle_deg[k], IF ambiguity THEN F(90) ELSE F(180))

\* Folding on, two finite non-zero vectors 60 degrees apart
C9_Witness ==
    /\ pc = "returned"
    /\ ambiguity
    /\ \E k \in 1..Len(tvec_gt) :
          /\ ~HasNaN(tvec_gt[k]) /\ ~HasNaN(tvec_pred[k])
          /\ ~IsZero(tvec_gt[k]) /\ ~IsZero(tvec_pred[k])
          /\ FEq(rel_tangle_deg[k], F(60))

(***************************************************************************)
(* test_co3d.py: calculate_auc_np, calculate_auc.  A histogram is the      *)
(* sequence of its counts, bin b of the code at place b + 1.               *)
(***************************************************************************)
MaxPairs == 2

max_threshold == 30

\* The errors in degrees: 0, 0.98, 30, 120 and 0, 29.5, 31 and the sentinel of
\* translation_angle (1e6 rad in degrees, folded)
RErrSet == { F(0), <<49, 50>>, F(30), F(120) }
TErrSet == { F(0), <<59, 2>>, F(31),
             Fold(RadToDeg(RadNum(F(default_err)))) }

\* The array of the n values f[1], ..., f[n]
AsArray(f, n) == SubSeq(f, 1, n)

\* np.max(error_matrix, axis=1), torch.max(error_matrix, dim=1)
MaxErrors(r, t) == AsArray([k \in 1..Len(r) |-> FMax(r[k], t[k])], Len(r))

\* np.histogram(max_errors, bins=np.arange(max_threshold + 1)): max_threshold
\* bins [b, b + 1), the last one closed; other values are not counted
BinNp(x, thr) ==
    IF FLt(x, F(0)) \/ FGt(x, F(thr)) THEN -1
    ELSE IF FEq(x, F(thr)) THEN thr - 1
    ELSE FloorOf(x)

\* torch.histc(max_errors, bins=max_threshold + 1, min=0, max=max_threshold):
\* max_threshold + 1 bins of equal width over [min, max], max in the last one;
\* other values are not counted
BinTorch(x, thr) ==
    IF FLt(x, F(0)) \/ FGt(x, F(thr)) THEN -1
    ELSE IF FEq(x, F(thr)) THEN thr
    ELSE FloorOf(FDiv(FMul(x, F(thr + 1)), F(thr)))

\* The bin of every value
BinsNp(errs, thr) == AsArray([k \in 1..Len(errs) |-> BinNp(errs[k], thr)], Len(errs))

BinsTorch(errs, thr) == AsArray([k \in 1..Len(errs) |-> BinTorch(errs[k], thr)], Len(errs))

\* The number of values in bin b
CountNp(bins, b) == Cardinality({ k \in 1..Len(bins) : bins[k] = b })

CountTorch(bins, b) == Cardinality({ k \in 1..Len(bins) : bins[k] = b })

\* lines 149, 176: num_pairs
NumPairsOne(errs) == 1

NumPairs(errs) == Len(errs)

\* histogram / num_pairs
Normalized(hist, n) == [b \in 1..Len(hist) |-> FDiv(F(hist[b]), F(n))]

\* np.cumsum, torch.cumsum
RECURSIVE CumSum(_)
CumSum(h) ==
    IF Len(h) <= 1 THEN h
    ELSE LET c == CumSum(SubSeq(h, 1, Len(h) - 1))
         IN  Append(c, FAdd(c[Len(c)], h[Len(h)]))

RECURSIVE Sum(_)
Sum(h) == IF h = <<>> THEN F(0) ELSE FAdd(Sum(Tail(h)), Head(h))

\* np.mean, .mean()
Mean(h) == FDiv(Sum(h), F(Len(h)))

\* lines 160-178
calculate_auc_np(r, t, thr) ==
    LET max_errors == MaxErrors(r, t)
        bins == BinsNp(max_errors, thr)
        histogram == [b \in 1..thr |-> CountNp(bins, b - 1)]
        normalized_histogram == Normalized(histogram, NumPairs(max_errors))
    IN  <<Mean(CumSum(normalized_histogram)), normalized_histogram>>

\* lines 131-157, return_list=True
calculate_auc(r, t, thr) ==
    LET max_errors == MaxErrors(r, t)
        bins == BinsTorch(max_errors, thr)
        histogram == [b \in 1..thr + 1 |-> CountTorch(bins, b - 1)]
        normalized_histogram == Normalized(histogram, NumPairs(max_errors))
    IN  <<Mean(CumSum(normalized_histogram)), normalized_histogram>>

InitAuc ==
    /\ pc = "auc"
    /\ \E n \in 1..MaxPairs :
          /\ r_error \in [1..n -> RErrSet]
          /\ t_error \in [1..n -> TErrSet]
    /\ auc_np = <<>>
    /\ auc_torch = <<>>
    /\ IdleVis
    /\ IdleExt
    /\ IdleTr
    /\ IdlePose
    /\ IdleEval

\* A call of calculate_auc_np on the arrays
CalculateAucNp ==
    /\ pc = "auc"
    /\ auc_np = <<>>
    /\ auc_np' = calculate_auc_np(r_error, t_error, max_threshold)
    /\ UNCHANGED <<pc, r_error, t_error, auc_torch>>
    /\ UNCHANGED notAuc

\* A call of calculate_auc on the arrays
CalculateAuc ==
    /\ pc = "auc"
    /\ auc_torch = <<>>
    /\ auc_torch' = calculate_auc(r_error, t_error, max_threshold)
    /\ UNCHANGED <<pc, r_error, t_error, auc_np>>
    /\ UNCHANGED notAuc

NextAuc ==
    \/ CalculateAucNp
    \/ CalculateAuc

SpecAuc == InitAuc /\ [][NextAuc]_vars

AllZero(errs) == \A k \in 1..Len(errs) : errs[k] = F(0)

InUnit(x) == FLe(F(0), x) /\ FLe(x, F(1))

\* C7: for non-empty error arrays of equal length the AUC of calculate_auc_np
\* and of calculate_auc lies in [0, 1], and it is 1 when all errors are 0.
C7_AucInUnit ==
    /\ auc_np # <<>> =>
          /\ InUnit(auc_np[1])
          /\ (AllZero(r_error) /\ AllZero(t_error)) => auc_np[1] = F(1)
    /\ auc_torch # <<>> =>
          /\ InUnit(auc_torch[1])
          /\ (AllZero(r_error) /\ AllZero(t_error)) => auc_torch[1] = F(1)

\* Both were called on arrays that hold an error above max_threshold and the
\* sentinel beside errors within it, and the AUC lies strictly inside (0, 1).
C7_Witness ==
    /\ auc_np # <<>>
    /\ auc_torch # <<>>
    /\ \E k \in 1..Len(t_error) : FGt(t_error[k], F(1000))
    /\ \E k \in 1..Len(r_error) : FLe(FMax(r_error[k], t_error[k]), F(max_threshold))
    /\ FLt(F(0), auc_np[1]) /\ FLt(auc_np[1], F(1))
    /\ FLt(F(0), auc_torch[1]) /\ FLt(auc_torch[1], F(1))

\* C15: on the same error arrays and the same max_threshold, calculate_auc
\* and calculate_auc_np put the larger error of every pair in the same bin,
\* return the same normalised histogram over the bins they share, and
\* return the same AUC.
C15_SameAuc ==
    (auc_np # <<>> /\ auc_torch # <<>>) =>
       /\ BinsNp(MaxErrors(r_error, t_error), max_threshold) =
             BinsTorch(MaxErrors(r_error, t_error), max_threshold)
       /\ \A b \in 1..max_threshold : auc_np[2][b] = auc_torch[2][b]
       /\ auc_np[1] = auc_torch[1]

(***************************************************************************)
(* test_co3d.py: relative pose errors.  A pose is a 4x4 matrix (a sequence *)
(* of rows), an extrinsic its first three rows; their entries are integers *)
(* here, and float values from the quaternions and translations on.        *)
(***************************************************************************)
MaxFrames == 4

\* torch.bmm / torch.matmul of two 4x4 matrices
Cell(A, B, r, c) ==
    A[r][1] * B[1][c] + A[r][2] * B[2][c] + A[r][3] * B[3][c] + A[r][4] * B[4][c]

MatRow(A, B, r) == <<Cell(A, B, r, 1), Cell(A, B, r, 2), Cell(A, B, r, 3), Cell(A, B, r, 4)>>

MatMul(A, B) == <<MatRow(A, B, 1), MatRow(A, B, 2), MatRow(A, B, 3), MatRow(A, B, 4)>>

\* -(R' . t), component r
InvTrans(M, r) == -(M[1][r] * M[1][4] + M[2][r] * M[2][4] + M[3][r] * M[3][4])

\* vggt.utils.geometry.closed_form_inverse_se3: R' = transpose(R),
\* t' = -R' . t, last row 0 0 0 1
closed_form_inverse_se3(M) ==
    << <<M[1][1], M[2][1], M[3][1], InvTrans(M, 1)>>,
       <<M[1][2], M[2][2], M[3][2], InvTrans(M, 2)>>,
       <<M[1][3], M[2][3], M[3][3], InvTrans(M, 3)>>,
       <<0, 0, 0, 1>> >>

\* The first of the largest entries of d
ArgMax(d) ==
    CHOOSE i \in 1..Len(d) :
       /\ \A j \in 1..Len(d) : d[j] <= d[i]
       /\ \A j \in 1..i - 1 : d[j] < d[i]

\* vggt.utils.rotation.mat_to_quat: the unit quaternion of a rotation matrix,
\* as a vector v and the square n2 of its length (the quaternion is
\* v / sqrt(n2)).  v is the candidate row of the largest of the four
\* 4 q_i^2 = 1 +- m00 +- m11 +- m22.
mat_to_quat(m) ==
    LET d == << 1 + m[1][1] + m[2][2] + m[3][3], 1 + m[1][1] - m[2][2] - m[3][3],
                1 - m[1][1] + m[2][2] - m[3][3], 1 - m[1][1] - m[2][2] + m[3][3] >>
        rows == << << d[1], m[3][2] - m[2][3], m[1][3] - m[3][1], m[2][1] - m[1][2] >>,
                   << m[3][2] - m[2][3], d[2], m[2][1] + m[1][2], m[1][3] + m[3][1] >>,
                   << m[1][3] - m[3][1], m[2][1] + m[1][2], d[3], m[2][3] + m[3][2] >>,
                   << m[2][1] - m[1][2], m[3][1] + m[1][3], m[3][2] + m[2][3], d[4] >> >>
        v == rows[ArgMax(d)]
    IN  [v |-> v, n2 |-> v[1] * v[1] + v[2] * v[2] + v[3] * v[3] + v[4] * v[4]]

\* line 69: (q_pred * q_gt).sum(dim=1) ** 2
QuatSumSquared(qa, qb) ==
    LET d == qa.v[1] * qb.v[1] + qa.v[2] * qb.v[2] + qa.v[3] * qb.v[3]
                + qa.v[4] * qb.v[4]
    IN  Frac(d * d, qa.n2 * qb.n2)

\* lines 53-77, one row of the batch (batch_size is None)
rotation_angle(rot_gt, rot_pred) ==
    LET q_pred == mat_to_quat(rot_pred)
        q_gt == mat_to_quat(rot_gt)
        loss_q == ClampMinEps(FAdd(F(1), FNeg(QuatSumSquared(q_pred, q_gt))))
        err_q == Acos(FAdd(F(1), FNeg(FMul(F(2), loss_q))))
    IN  RadToDeg(err_q)

\* lines 37-50 with B = 1: torch.combinations(torch.arange(N), 2), as the
\* sequence of the pairs <<i1, i2>> (0-based) in its order
RECURSIVE PairsWithSelf(_, _, _)
PairsWithSelf(i, j, N) ==
    IF i >= N - 1 THEN <<>>
    ELSE IF j >= N THEN PairsWithSelf(i + 1, i + 1, N)
    ELSE <<<<i, j>>>> \o PairsWithSelf(i, j + 1, N)

RECURSIVE PairsFrom(_, _, _)
PairsFrom(i, j, N) ==
    IF i >= N - 1 THEN <<>>
    ELSE IF j >= N THEN PairsFrom(i + 1, i + 2, N)
    ELSE <<<<i, j>>>> \o PairsFrom(i, j + 1, N)

\* The combinations of the frames 1, ..., N - 1 only
build_pair_index_from_one(N) == PairsFrom(1, 2, N)

build_pair_index(N) == PairsFrom(0, 1, N)

\* lines 197-199 and 200-202: closed_form_inverse_se3(se3[i1]).bmm(se3[i2])
RelativePose(se3, pair) ==
    MatMul(closed_form_inverse_se3(se3[pair[1] + 1]), se3[pair[2] + 1])

\* [:, :3, :3] and [:, :3, 3] of a pose
Rot3(M) == << <<M[1][1], M[1][2], M[1][3]>>, <<M[2][1], M[2][2], M[2][3]>>,
              <<M[3][1], M[3][2], M[3][3]>> >>
Trans3(M) == <<F(M[1][4]), F(M[2][4]), F(M[3][4])>>
Top3(M) == <<M[1], M[2], M[3]>>

\* lines 193-202: the relative poses of the pairs of frames
RelativePoses(se3, N) ==
    LET pair_idx == build_pair_index(N)
    IN  [k \in 1..Len(pair_idx) |-> RelativePose(se3, pair_idx[k])]

\* lines 205-210: <<rel_rangle_deg, rel_tangle_deg>>
RelativeErrors(rel_gt, rel_pred) ==
    << [k \in 1..Len(rel_gt) |-> rotation_angle(Rot3(rel_gt[k]), Rot3(rel_pred[k]))],
       [k \in 1..Len(rel_gt) |->
           translation_angle(Trans3(rel_gt[k]), Trans3(rel_pred[k]), TRUE)] >>

\* lines 215-227: every pose times the inverse of the first
align_to_first_camera(camera_poses) ==
    LET first_cam_extrinsic_inv == closed_form_inverse_se3(camera_poses[1])
    IN  [k \in 1..Len(camera_poses) |-> MatMul(camera_poses[k], first_cam_extrinsic_inv)]

\* lines 340-343: torch.cat((extrinsic, add_row), dim=1)
AddRow(extrinsics) ==
    [k \in 1..Len(extrinsics) |-> Append(extrinsics[k], <<0, 0, 0, 1>>)]

\* A 3x4 extrinsic of rotation rows R and translation t
Extri(R, t) == <<Append(R[1], t[1]), Append(R[2], t[2]), Append(R[3], t[3])>>

RotId == << <<1, 0, 0>>, <<0, 1, 0>>, <<0, 0, 1>> >>
RotZ90 == << <<0, -1, 0>>, <<1, 0, 0>>, <<0, 0, 1>> >>
RotX90 == << <<1, 0, 0>>, <<0, 0, -1>>, <<0, 1, 0>> >>

\* The extrinsics of the frames
PoseSet == { Extri(RotId, <<0, 0, 0>>), Extri(RotZ90, <<1, 0, 0>>),
             Extri(RotX90, <<0, 1, 0>>), Extri(RotZ90, <<0, 0, 1>>) }

Reverse(q) == [k \in 1..Len(q) |-> q[Len(q) + 1 - k]]

\* What the pose provider may return for the frames gt: their ground truth,
\* their ground truth in the frame of the first camera, or another trajectory
PredictionsFor(gt) ==
    { gt,
      [k \in 1..Len(gt) |-> Top3(align_to_first_camera(AddRow(gt))[k])],
      Reverse(gt) }

InitPose ==
    /\ pc = "poses"
    /\ num_frames \in 2..MaxFrames
    /\ gt_extrinsic \in [1..num_frames -> PoseSet]
    /\ pred_extrinsic \in PredictionsFor(gt_extrinsic)
    /\ pred_se3 = <<>>
    /\ gt_se3 = <<>>
    /\ relative_pose_gt = <<>>
    /\ relative_pose_pred = <<>>
    /\ seq_rError = <<>>
    /\ seq_tError = <<>>
    /\ Auc_30 = <<>>
    /\ IdleVis
    /\ IdleExt
    /\ IdleTr
    /\ IdleAuc
    /\ IdleEval

\* process_sequence, lines 338-348: the poses are completed to 4x4 and the
\* ground truth alone is aligned to its first camera (line 347 is a comment)
CompleteAndAlign ==
    /\ pc = "poses"
    /\ pred_se3' = AddRow(pred_extrinsic)
    /\ gt_se3' = align_to_first_camera(AddRow(gt_extrinsic))
    /\ pc' = "relative_poses"
    /\ UNCHANGED <<num_frames, gt_extrinsic, pred_extrinsic, relative_pose_gt,
                   relative_pose_pred, seq_rError, seq_tError, Auc_30>>
    /\ UNCHANGED notPose

\* se3_to_relative_pose_error, lines 193-202
RelativePosesStep ==
    /\ pc = "relative_poses"
    /\ relative_pose_gt' = RelativePoses(gt_se3, num_frames)
    /\ relative_pose_pred' = RelativePoses(pred_se3, num_frames)
    /\ pc' = "pose_errors"
    /\ UNCHANGED <<num_frames, gt_extrinsic, pred_extrinsic, pred_se3, gt_se3,
                   seq_rError, seq_tError, Auc_30>>
    /\ UNCHANGED notPose

\* se3_to_relative_pose_error, lines 205-212, and the return of
\* process_sequence, lines 350-354
PoseErrors ==
    /\ pc = "pose_errors"
    /\ LET errs == RelativeErrors(relative_pose_gt, relative_pose_pred)
       IN  /\ seq_rError' = errs[1]
           /\ seq_tError' = errs[2]
    /\ pc' = "category_auc"
    /\ UNCHANGED <<num_frames, gt_extrinsic, pred_extrinsic, pred_se3, gt_se3,
                   relative_pose_gt, relative_pose_pred, Auc_30>>
    /\ UNCHANGED notPose

\* main, lines 418-429, for a category of this one sequence
CategoryAuc ==
    /\ pc = "category_auc"
    /\ Auc_30' = calculate_auc_np(seq_rError, seq_tError, max_threshold)[1]
    /\ pc' = "summary"
    /\ UNCHANGED <<num_frames, gt_extrinsic, pred_extrinsic, pred_se3, gt_se3,
                   relative_pose_gt, relative_pose_pred, seq_rError, seq_tError>>
    /\ UNCHANGED notPose

NextPose ==
    \/ CompleteAndAlign
    \/ RelativePosesStep
    \/ PoseErrors
    \/ CategoryAuc

SpecPose == InitPose /\ [][NextPose]_vars

AllErrorsZero ==
    /\ \A k \in 1..Len(seq_rError) : seq_rError[k] = F(0)
    /\ \A k \in 1..Len(seq_tError) : seq_tError[k] = F(0)

\* The number of two-combinations of n frames
Choose2(n) == (n * (n - 1)) \div 2

\* C6 as stated: when the predicted poses are identical to the ground-truth
\* poses, whatever these are, all C(N,2) rotation and translation errors are
\* 0 and the AUC at 30 is 1.
C6_IdenticalPosesZeroError ==
    (pc = "summary" /\ pred_extrinsic = gt_extrinsic) =>
       /\ Len(seq_rError) = Choose2(num_frames)
       /\ Len(seq_tError) = Choose2(num_frames)
       /\ AllErrorsZero
       /\ Auc_30 = F(1)

\* The relative translation of pair k of the aligned ground truth is zero
ZeroRelativeTranslation(k) == IsZero(Trans3(relative_pose_gt[k]))

\* C6 amended: when the predicted poses are identical to the ground-truth
\* poses re-anchored to the first camera (to the ground-truth poses themselves
\* when the first one is the identity), all C(N,2) rotation errors are 0, the
\* translation error of a pair is 0, or 90 degrees when the relative
\* translation of the pair has zero length, and the AUC at 30 is 1 when no
\* pair has a relative translation of zero length.
C6_AlignedPosesZeroError ==
    ( /\ pc = "summary"
      /\ pred_se3 = gt_se3 ) =>
       /\ Len(seq_rError) = Choose2(num_frames)
       /\ Len(seq_tError) = Choose2(num_frames)
       /\ \A k \in 1..Len(seq_rError) :
             /\ seq_rError[k] = F(0)
             /\ seq_tError[k] = IF ZeroRelativeTranslation(k) THEN F(90) ELSE F(0)
       /\ (\A k \in 1..Len(seq_tError) : ~ZeroRelativeTranslation(k)) =>
             Auc_30 = F(1)

\* Four frames whose first ground-truth pose is the identity, predictions
\* identical to the ground truth: six pairs, all errors 0, AUC 1.
C6_Witness ==
    /\ pc = "summary"
    /\ num_frames = 4
    /\ pred_extrinsic = gt_extrinsic
    /\ gt_extrinsic[1] = Extri(RotId, <<0, 0, 0>>)
    /\ Len(seq_rError) = 6
    /\ AllErrorsZero
    /\ Auc_30 = F(1)

\* build_pair_index(N) holds exactly the pairs (i, j), 0 <= i < j < N, once each
ExactlyThePairs(N) ==
    LET p == build_pair_index(N)
    IN  /\ Len(p) = Choose2(N)
        /\ \A k \in 1..Len(p) : 0 <= p[k][1] /\ p[k][1] < p[k][2] /\ p[k][2] < N
        /\ \A k, l \in 1..Len(p) : k # l => p[k] # p[l]
        /\ \A i, j \in 0..N - 1 : i < j => \E k \in 1..Len(p) : p[k] = <<i, j>>

\* C14: for every frame count N from 0 on, build_pair_index(N) is exactly the
\* C(N,2) pairs (i, j) with 0 <= i < j < N, each once (none for N < 2), and
\* se3_to_relative_pose_error computes C(N,2) relative poses of each kind and
\* returns C(N,2) rotation errors and C(N,2) translation errors.
C14_PairIndex ==
    /\ \A N \in 0..MaxFrames : ExactlyThePairs(N)
    /\ pc \in {"pose_errors", "category_auc", "summary"} =>
          /\ Len(relative_pose_gt) = Choose2(num_frames)
          /\ Len(relative_pose_pred) = Choose2(num_frames)
    /\ pc \in {"category_auc", "summary"} =>
          /\ Len(seq_rError) = Choose2(num_frames)
          /\ Len(seq_tError) = Choose2(num_frames)

\* Four frames and a prediction that is not the ground truth: the six pairs
\* in the order of torch.combinations, six errors of each kind, not all zero.
C14_Witness ==
    /\ pc = "category_auc"
    /\ num_frames = 4
    /\ build_pair_index(num_frames) =
          << <<0, 1>>, <<0, 2>>, <<0, 3>>, <<1, 2>>, <<1, 3>>, <<2, 3>> >>
    /\ Len(seq_rError) = 6
    /\ Len(seq_tError) = 6
    /\ ~AllErrorsZero

(***************************************************************************)
(* test_co3d.py: the evaluation loop of main and the sequence policy of    *)
(* process_sequence.  A frame is its ground-truth translation data["T"],   *)
(* a sequence the list of its frames.  The items of an annotation file     *)
(* are drawn as the loop reaches them.                                     *)
(***************************************************************************)
MaxCats == 2        \* categories of the run
MaxSeqs == 2        \* sequences of an annotation file
MaxNumImages == 3   \* largest --min_num_images and --num_frames

\* line 303: the largest coordinate sum of a translation that is kept
TSumLimit == 100000

None == <<>>

\* lines 372-383
SEEN_CATEGORIES ==
    << "apple", "backpack", "banana", "baseballbat", "baseballglove",
       "bench", "bicycle", "bottle", "bowl", "broccoli",
       "cake", "car", "carrot", "cellphone", "chair",
       "cup", "donut", "hairdryer", "handbag", "hydrant",
       "keyboard", "laptop", "microwave", "motorcycle", "mouse",
       "orange", "parkingmeter", "pizza", "plant", "stopsign",
       "teddybear", "toaster", "toilet", "toybus", "toyplane",
       "toytrain", "toytruck", "tv", "umbrella", "vase", "wineglass" >>

\* lines 372-386: the categories of the run, the first MaxCats of the list
Categories(a) ==
    IF a.debug THEN <<"teddybear">> ELSE SubSeq(SEEN_CATEGORIES, 1, MaxCats)

\* Translations of a frame: an ordinary one, one whose coordinate sum is
\* just above the limit, one whose sum is the limit, one with a coordinate
\* above the limit and a sum below it
Near == <<0, 0, 1>>
Far == <<100000, 1, 0>>
Edge == <<100000, 0, 0>>
Cancel == <<200000, -150000, 0>>

\* The sequences of the annotation files
SeqSet == { <<Near>>, <<Near, Near>>, <<Near, Edge, Cancel>>, <<Far, Near, Near>>,
            <<Near, Near, Far>>, <<Near, Far>> }

\* A predicted pose, as the errors (rotation, translation, degrees) it gives
\* every pair of the sequence
PairErrSet == { <<F(0), F(0)>>, <<F(45), F(0)>> }

\* What the loader, the refiner and the model do in a call of
\* process_sequence: whether each returns, and the poses the two providers
\* return (kept at the first pose where a provider raises or is not reached)
ProviderRuns ==
    { r \in [load_ok : BOOLEAN, ba_ok : BOOLEAN, model_ok : BOOLEAN,
             e_ba : PairErrSet, e_model : PairErrSet] :
         /\ ~r.load_ok => (r.ba_ok /\ r.model_ok)
         /\ (~r.load_ok \/ ~r.ba_ok) => r.e_ba = <<F(0), F(0)>>
         /\ (~r.load_ok \/ ~r.model_ok) => r.e_model = <<F(0), F(0)>> }

ArgSet ==
    [min_num_images : 2..MaxNumImages, num_frames : 2..MaxNumImages,
     use_ba : BOOLEAN, debug : BOOLEAN]

\* line 303: data["T"][0] + data["T"][1] + data["T"][2]
TSum(T) == T[1] + T[2] + T[3]

\* lines 301-304 looking at the first frame only
FirstRidiculous(sd) == TSum(sd[1]) > TSumLimit

\* lines 301-304: some frame of the loop returns None, None
AnyRidiculous(sd) == \E k \in 1..Len(sd) : TSum(sd[k]) > TSumLimit

\* lines 338-354: the errors of the C(num_frames, 2) pairs, each e
ErrorsOf(a, e) ==
    LET n == Len(build_pair_index(a.num_frames))
    IN  <<[k \in 1..n |-> e[1]], [k \in 1..n |-> e[2]]>>

\* A call of fn that returned out
Returned(fn, out) == <<fn, TRUE, out>>

\* A call of fn that raised
Raised(fn) == <<fn, FALSE, None>>

\* lines 319-336 without the except clause: an exception of the refiner
\* leaves process_sequence
PredictNoFallback(a, ba_ok, model_ok, e_ba, e_model) ==
    IF a.use_ba /\ ba_ok
    THEN [raised |-> FALSE, calls |-> <<Returned("run_vggt_with_ba", e_ba)>>, pred |-> e_ba]
    ELSE IF a.use_ba
    THEN [raised |-> TRUE, calls |-> <<Raised("run_vggt_with_ba")>>, pred |-> None]
    ELSE IF model_ok
    THEN [raised |-> FALSE, calls |-> <<Returned("model", e_model)>>, pred |-> e_model]
    ELSE [raised |-> TRUE, calls |-> <<Raised("model")>>, pred |-> None]

\* lines 319-336: pred_extrinsic from run_vggt_with_ba when use_ba, from
\* model(images) when it raised or when not use_ba.  ba_ok and model_ok say
\* whether the two return, e_ba and e_model are the poses they return.
Predict(a, ba_ok, model_ok, e_ba, e_model) ==
    LET ba == IF ~a.use_ba THEN <<>>
              ELSE IF ba_ok THEN <<Returned("run_vggt_with_ba", e_ba)>>
              ELSE <<Raised("run_vggt_with_ba")>>
    IN  IF a.use_ba /\ ba_ok
        THEN [raised |-> FALSE, calls |-> ba, pred |-> e_ba]
        ELSE IF model_ok
        THEN [raised |-> FALSE, calls |-> ba \o <<Returned("model", e_model)>>,
              pred |-> e_model]
        ELSE [raised |-> TRUE, calls |-> ba \o <<Raised("model")>>, pred |-> None]

\* lines 277-354: what process_sequence does with the frames sd under the
\* arguments a: it returns None, None or the errors, or raises.  load_ok
\* says whether load_and_preprocess_images returns.
process_sequence(sd, a, load_ok, ba_ok, model_ok, e_ba, e_model) ==
    IF Len(sd) < a.min_num_images
    THEN [raised |-> FALSE, ret |-> None, calls |-> <<>>, pred |-> None]
    ELSE IF AnyRidiculous(sd)
    THEN [raised |-> FALSE, ret |-> None, calls |-> <<>>, pred |-> None]
    \* line 312: np.random.choice(n, num_frames, replace=False) raises
    \* ValueError when num_frames > n
    ELSE IF a.num_frames > Len(sd)
    THEN [raised |-> TRUE, ret |-> None, calls |-> <<>>, pred |-> None]
    ELSE IF ~load_ok
    THEN [raised |-> TRUE, ret |-> None,
          calls |-> <<Raised("load_and_preprocess_images")>>, pred |-> None]
    ELSE LET p == Predict(a, ba_ok, model_ok, e_ba, e_model)
             loaded == <<Returned("load_and_preprocess_images", None)>>
         IN  [raised |-> p.raised,
              ret |-> IF p.raised THEN None ELSE ErrorsOf(a, p.pred),
              calls |-> loaded \o p.calls,
              pred |-> p.pred]

InitEval ==
    /\ pc = "category"
    /\ args \in ArgSet
    /\ category = 1
    /\ num_seqs = 0
    /\ seq_idx = 0
    /\ seq_data = <<>>
    /\ seq_errors = None
    /\ calls = <<>>
    /\ pred = None
    /\ rError = <<>>
    /\ tError = <<>>
    /\ per_category_results = <<>>
    /\ mean_AUC = <<>>
    /\ IdleVis
    /\ IdleExt
    /\ IdleTr
    /\ IdleAuc
    /\ IdlePose

\* main, lines 389-398: the annotation file of the category is missing
AnnotationMissing ==
    /\ pc = "category"
    /\ category <= Len(Categories(args))
    /\ category' = category + 1
    /\ UNCHANGED <<pc, args, num_seqs, seq_idx, seq_data, seq_errors, calls, pred, rError,
                   tError, per_category_results, mean_AUC>>
    /\ UNCHANGED notEval

\* main, lines 389-401: the annotation file is read
LoadAnnotation ==
    /\ pc = "category"
    /\ category <= Len(Categories(args))
    /\ \E n \in 0..MaxSeqs : num_seqs' = n
    /\ seq_idx' = 1
    /\ rError' = <<>>
    /\ tError' = <<>>
    /\ pc' = "sequence"
    /\ UNCHANGED <<args, category, seq_data, seq_errors, calls, pred,
                   per_category_results, mean_AUC>>
    /\ UNCHANGED notEval

\* main, lines 403-409: in debug mode a sequence without a directory is skipped
SkipSequence ==
    /\ pc = "sequence"
    /\ seq_idx <= num_seqs
    /\ args.debug
    /\ seq_data' \in SeqSet
    /\ seq_idx' = seq_idx + 1
    /\ UNCHANGED <<pc, args, category, num_seqs, seq_errors, calls, pred, rError, tError,
                   per_category_results, mean_AUC>>
    /\ UNCHANGED notEval

\* main, lines 403-420, with the call of process_sequence: an exception of the
\* call is not handled and ends the run
ProcessSequence ==
    /\ pc = "sequence"
    /\ seq_idx <= num_seqs
    /\ \E sd \in SeqSet, run \in ProviderRuns :
          LET r == process_sequence(sd, args, run.load_ok, run.ba_ok, run.model_ok,
                                    run.e_ba, run.e_model)
          IN  /\ seq_data' = sd
              /\ calls' = r.calls
              /\ pred' = r.pred
              /\ IF r.raised
                 THEN /\ pc' = "aborted"
                      /\ UNCHANGED <<seq_idx, seq_errors, rError, tError>>
                 ELSE /\ pc' = pc
                      /\ seq_errors' = r.ret
                      /\ rError' = IF r.ret # None THEN rError \o r.ret[1] ELSE rError
                      /\ tError' = IF r.ret # None THEN tError \o r.ret[2] ELSE tError
                      /\ seq_idx' = seq_idx + 1
    /\ UNCHANGED <<args, category, num_seqs, per_category_results, mean_AUC>>
    /\ UNCHANGED notEval

\* lines 422-435 without the test of line 422: a category without errors gets
\* an entry
CategoryDoneKeepsEmpty ==
    /\ pc = "sequence"
    /\ seq_idx > num_seqs
    /\ per_category_results' =
          Append(per_category_results,
                 [category |-> Categories(args)[category],
                  Auc_30 |-> IF rError = <<>> THEN F(0)
                             ELSE calculate_auc_np(rError, tError, max_threshold)[1]])
    /\ category' = category + 1
    /\ pc' = "category"
    /\ UNCHANGED <<args, num_seqs, seq_idx, seq_data, seq_errors, calls, pred, rError, tError,
                   mean_AUC>>
    /\ UNCHANGED notEval

\* main, lines 422-435: the end of the loop over the sequences of a category
CategoryDone ==
    /\ pc = "sequence"
    /\ seq_idx > num_seqs
    /\ per_category_results' =
          IF rError = <<>> THEN per_category_results
          ELSE Append(per_category_results,
                      [category |-> Categories(args)[category],
                       Auc_30 |-> calculate_auc_np(rError, tError, max_threshold)[1]])
    /\ category' = category + 1
    /\ pc' = "category"
    /\ UNCHANGED <<args, num_seqs, seq_idx, seq_data, seq_errors, calls, pred, rError, tError,
                   mean_AUC>>
    /\ UNCHANGED notEval

\* main, lines 437-448: the summary
Summary ==
    /\ pc = "category"
    /\ category > Len(Categories(args))
    /\ mean_AUC' =
          IF per_category_results # <<>>
          THEN Mean([k \in 1..Len(per_category_results) |-> per_category_results[k].Auc_30])
          ELSE mean_AUC
    /\ pc' = "done"
    /\ UNCHANGED <<args, category, num_seqs, seq_idx, seq_data, seq_errors, calls, pred,
                   rError, tError, per_category_results>>
    /\ UNCHANGED notEval

NextEval ==
    \/ AnnotationMissing
    \/ LoadAnnotation
    \/ SkipSequence
    \/ ProcessSequence
    \/ CategoryDone
    \/ Summary

SpecEval == InitEval /\ [][NextEval]_vars

\* The sequence policy: fewer frames than min_num_images, or a frame whose
\* translation has a coordinate sum above 1e5
TooFewFrames(sd, a) == Len(sd) < a.min_num_images

HasRidiculousFrame(sd) ==
    \E k \in 1..Len(sd) : sd[k][1] + sd[k][2] + sd[k][3] > TSumLimit

\* C10: for a sequence with fewer frames than min_num_images, or with any
\* frame (the first or a later one) whose ground-truth translation has a
\* coordinate sum above 1e5, the call of process_sequence returns None, does
\* not raise, and the loop goes on with the category's rotation and
\* translation error arrays as they were.
C10_DiscardedAddsNothing ==
    [][ ( /\ pc = "sequence"
          /\ TooFewFrames(seq_data', args) \/ HasRidiculousFrame(seq_data')
          /\ ProcessSequence ) =>
           /\ seq_errors' = None
           /\ pc' = "sequence"
           /\ seq_idx' = seq_idx + 1
           /\ rError' = rError
           /\ tError' = tError ]_vars

\* The second sequence of a category has enough frames, the last of them
\* with a coordinate sum above 1e5: it returned None and the category holds
\* the errors of the first sequence only.
C10_Witness ==
    /\ pc = "sequence"
    /\ ~args.debug
    /\ seq_idx = 3
    /\ seq_data = <<Near, Near, Far>>
    /\ ~TooFewFrames(seq_data, args)
    /\ seq_errors = None
    /\ Len(rError) = Choose2(args.num_frames)
    /\ Len(tError) = Choose2(args.num_frames)

\* The evaluation loop under the scheduling of a sequential program: a step
\* that can be taken is eventually taken
SpecEvalFair == SpecEval /\ WF_vars(NextEval)

\* C11: a call of process_sequence that fails is isolated: the loop goes on
\* to the next sequence with the category's error arrays as they were, the
\* run is never aborted, and the summary is eventually produced.
C11_FailureIsolated ==
    /\ [][ProcessSequence =>
            /\ pc' = "sequence"
            /\ seq_idx' = seq_idx + 1]_vars
    /\ [](pc # "aborted")
    /\ <>(pc = "done")

\* The last call of process_sequence called fn
Called(fn) == \E k \in 1..Len(calls) : calls[k][1] = fn

\* C12: with bundle adjustment enabled the refiner is the first pose provider
\* called; when it returns, its pose is the predicted pose and the model is
\* not called; when it raises, the model is called next and, when that
\* returns, its pose is the predicted pose and the run goes on: the refiner
\* raising is never the end of the call.  With bundle adjustment disabled the
\* refiner is not called.  The errors returned are those of the predicted pose.
C12_RefinerFirstWithFallback ==
    /\ ~args.use_ba => ~Called("run_vggt_with_ba")
    /\ \A k \in 1..Len(calls) :
          /\ (args.use_ba /\ calls[k] = Returned("load_and_preprocess_images", None)) =>
                /\ k < Len(calls)
                /\ calls[k + 1][1] = "run_vggt_with_ba"
          /\ (calls[k][1] = "run_vggt_with_ba" /\ calls[k][2]) =>
                /\ pred = calls[k][3]
                /\ ~Called("model")
                /\ pc # "aborted"
          /\ calls[k] = Raised("run_vggt_with_ba") =>
                /\ k < Len(calls)
                /\ calls[k + 1][1] = "model"
          /\ (calls[k][1] = "model" /\ calls[k][2]) =>
                /\ pred = calls[k][3]
                /\ pc # "aborted"
          /\ (args.use_ba /\ calls[k][1] = "model") =>
                /\ k > 1
                /\ calls[k - 1] = Raised("run_vggt_with_ba")
    /\ pred # None => seq_errors = ErrorsOf(args, pred)

\* The refiner raised, the model returned: its pose is the predicted pose, its
\* errors were returned and are the category's, and the loop goes on.
C12_Witness ==
    /\ args.use_ba
    /\ pc = "sequence"
    /\ seq_idx = 2
    /\ calls = << Returned("load_and_preprocess_images", None),
                  Raised("run_vggt_with_ba"),
                  Returned("model", <<F(45), F(0)>>) >>
    /\ pred = <<F(45), F(0)>>
    /\ seq_errors = ErrorsOf(args, pred)
    /\ rError = seq_errors[1]

\* The AUC values of the entries of the summary
AucsOf(results) == [k \in 1..Len(results) |-> results[k].Auc_30]

\* C13: the errors a sequence returns are appended to the errors of its
\* category, which start empty; at the end of the category one entry is
\* added for it, whose AUC is that of all these errors together, when there
\* are any, and none otherwise; a missing annotation file adds no entry;
\* nothing else changes the entries; none of these steps ends the run; the
\* mean AUC of the summary is the sum of the AUCs of the entries divided by
\* their number.
C13_CategoryAggregation ==
    [][ /\ (pc = "category" /\ pc' = "category") =>
              /\ per_category_results' = per_category_results
              /\ category' = category + 1
        /\ (pc = "category" /\ pc' = "sequence") =>
              /\ rError' = <<>>
              /\ tError' = <<>>
              /\ per_category_results' = per_category_results
        /\ (pc = "sequence" /\ pc' # "category") =>
              per_category_results' = per_category_results
        /\ (pc = "sequence" /\ pc' = "sequence" /\ seq_errors' # None /\ ProcessSequence) =>
              /\ rError' = rError \o seq_errors'[1]
              /\ tError' = tError \o seq_errors'[2]
        /\ (pc = "sequence" /\ pc' = "sequence" /\ rError' # rError) =>
              /\ rError' = rError \o seq_errors'[1]
              /\ tError' = tError \o seq_errors'[2]
        /\ (pc = "sequence" /\ pc' = "category") =>
              /\ category' = category + 1
              /\ per_category_results' =
                    IF rError = <<>> THEN per_category_results
                    ELSE per_category_results \o
                         << [category |-> Categories(args)[category],
                             Auc_30 |-> calculate_auc_np(rError, tError, 30)[1]] >>
        /\ pc' = "aborted" => (pc = "sequence" /\ seq_idx <= num_seqs)
        /\ pc' = "done" =>
              /\ per_category_results' = per_category_results
              /\ per_category_results # <<>> =>
                    FMul(mean_AUC', F(Len(per_category_results))) =
                       Sum(AucsOf(per_category_results))
              /\ per_category_results = <<>> => mean_AUC' = None ]_vars

\* The first category has no entry; the second has the errors of two
\* sequences of one pair each, one within the threshold: its AUC is 1/2, and
\* so is the mean AUC.
C13_Witness ==
    /\ pc = "done"
    /\ ~args.debug
    /\ per_category_results = << [category |-> "backpack", Auc_30 |-> <<1, 2>>] >>
    /\ rError = <<F(0), F(45)>>
    /\ tError = <<F(0), F(0)>>
    /\ mean_AUC = <<1, 2>>

(***************************************************************************)
(* Claims about compute_point_visibility and the export                    *)
(***************************************************************************)
\* The (point, entry) places of the tracks that hold the entry e
TrackPlaces(e) ==
    { pe \in (1..Len(point_tracks)) \X (1..Len(cameras)) :
         /\ pe[2] <= Len(point_tracks[pe[1]])
         /\ point_tracks[pe[1]][pe[2]] = e }

\* C1: the observation lists and the tracks are a bijective cross-reference:
\* observation k (0-based) of image id i names point p exactly when (i, k) is
\* an entry of p's track; every observation has exactly one track entry and
\* every track entry names exactly one existing observation.
C1_Bijection ==
    /\ \A i \in 1..Len(image_points) : \A k \in 1..Len(image_points[i]) :
          /\ Cardinality(TrackPlaces(<<i, k - 1>>)) = 1
          /\ \A p \in 1..Len(point_tracks) :
                (image_points[i][k][3] = p - 1) <=>
                   (\E e \in 1..Len(point_tracks[p]) :
                       point_tracks[p][e] = <<i, k - 1>>)
    /\ \A p \in 1..Len(point_tracks) : \A e \in 1..Len(point_tracks[p]) :
          LET i == point_tracks[p][e][1]
              k == point_tracks[p][e][2]
          IN  /\ i \in 1..Len(image_points)
              /\ k + 1 \in 1..Len(image_points[i])
              /\ image_points[i][k + 1][3] = p - 1

\* One point seen by every one of at least two cameras: its track is as long
\* as the camera list and each image holds exactly one observation of it.
C1_Witness ==
    /\ pc = "done"
    /\ Len(cameras) >= 2
    /\ \E p \in 1..Len(points3d) :
          /\ Len(point_tracks[p]) = Len(cameras)
          /\ \A i \in 1..Len(cameras) :
                Cardinality({ k \in 1..Len(image_points[i]) :
                                 image_points[i][k][3] = p - 1 }) = 1

\* Camera i (1-based) is recorded as an observer of point p (1-based)
Observes(i, p) ==
    \E e \in 1..Len(point_tracks[p]) : point_tracks[p][e][1] = i

\* The numerators of the pixel over the depth: K . p_cam, without the division
PixelTimesDepth(cam, p) ==
    LET pcam == PointCam(cam, p)
    IN  [r \in 1..2 |-> Dot3(cam.K[r], pcam)]

\* C2: camera c observes point p if and only if the depth z is > 0 and the
\* pixel satisfies 0 <= x < width and 0 <= y < height, that is
\* 0 <= x*z < width*z and 0 <= y*z < height*z.
C2_VisibleIff ==
    pc # "visibility" =>
       \A i \in 1..Len(cameras) : \A p \in 1..Len(points3d) :
          LET z == PointCam(cameras[i], points3d[p])[3]
              n == PixelTimesDepth(cameras[i], points3d[p])
          IN  Observes(i, p) <=>
                 /\ FGt(z, F(0))
                 /\ FLe(F(0), n[1]) /\ FLt(n[1], FMul(F(cameras[i].shape[2]), z))
                 /\ FLe(F(0), n[2]) /\ FLt(n[2], FMul(F(cameras[i].shape[1]), z))

\* A camera that observes a point at pixel (0, 0) and does not observe a point
\* in front of it whose pixel has x = width, and a point at depth 0.
C2_Witness ==
    /\ pc = "done"
    /\ \E i \in 1..Len(cameras) :
          /\ \E p \in 1..Len(points3d) :
                LET n == PixelTimesDepth(cameras[i], points3d[p])
                IN  /\ Observes(i, p)
                    /\ n[1] = F(0)
                    /\ n[2] = F(0)
          /\ \E p \in 1..Len(points3d) :
                LET z == PointCam(cameras[i], points3d[p])[3]
                    n == PixelTimesDepth(cameras[i], points3d[p])
                IN  /\ ~Observes(i, p)
                    /\ \/ FGt(z, F(0)) /\ FLe(FMul(F(cameras[i].shape[2]), z), n[1])
                                       /\ FLe(n[1], FMul(F(cameras[i].shape[2]), z))
                       \/ z = F(0)

\* The rows of points3D.txt with POINT3D_ID id
RowsOf(id) == { r \in 1..Len(points3d_txt.rows) : points3d_txt.rows[r].point3d_id = id }

\* C3: points3D.txt holds no row for a point with an empty track and exactly
\* one row for every point with a non-empty track, and its declared count is
\* the number of extracted points, not the number of rows.
C3_HeaderAndRows ==
    pc = "done" =>
       /\ points3d_txt.header = Len(points3d)
       /\ \A p \in 1..Len(points3d) :
             Cardinality(RowsOf(p - 1)) = IF point_tracks[p] = <<>> THEN 0 ELSE 1
       /\ \A r \in 1..Len(points3d_txt.rows) :
             points3d_txt.rows[r].point3d_id \in 0..Len(points3d) - 1

\* A point with an empty track and one with a track: fewer rows than declared.
C3_Witness ==
    /\ pc = "done"
    /\ Len(points3d_txt.rows) >= 1
    /\ points3d_txt.header > Len(points3d_txt.rows)

\* C4: the POINT3D_ID of a row of points3D.txt and of an observation of
\* images.txt is the point's index in points3d: the row carries that point's
\* coordinates and track, the observation is an entry of that point's track
\* and has a row with the same id; ids are not renumbered.
C4_IdsAreIndices ==
    pc = "done" =>
       /\ \A r \in 1..Len(points3d_txt.rows) :
             LET row == points3d_txt.rows[r]
             IN  /\ row.point3d_id + 1 \in 1..Len(points3d)
                 /\ row.xyz = [c \in 1..3 |-> Fmt(points3d[row.point3d_id + 1][c], 9)]
                 /\ row.track = point_tracks[row.point3d_id + 1]
                 /\ row.track # <<>>
       /\ \A i \in 1..Len(images_txt.rows) :
             \A k \in 1..Len(images_txt.rows[i].points2d) :
                LET id == images_txt.rows[i].points2d[k].point3d_id
                IN  /\ id + 1 \in 1..Len(points3d)
                    /\ \E e \in 1..Len(point_tracks[id + 1]) :
                          point_tracks[id + 1][e] = <<images_txt.rows[i].image_id, k - 1>>
                    /\ Cardinality(RowsOf(id)) = 1

\* The written ids are not contiguous: point 0 was dropped, a later point has
\* a row and is referenced from images.txt.
C4_Witness ==
    /\ pc = "done"
    /\ RowsOf(0) = {}
    /\ \E r \in 1..Len(points3d_txt.rows) :
          /\ points3d_txt.rows[r].point3d_id >= 1
          /\ \E i \in 1..Len(images_txt.rows) :
                \E k \in 1..Len(images_txt.rows[i].points2d) :
                   images_txt.rows[i].points2d[k].point3d_id =
                      points3d_txt.rows[r].point3d_id
====
